---- MODULE Spec2Model ----
(***************************************************************************)
(* A model of google-assistant-helper: the HTTP relay handler, the TTS     *)
(* cache, the delayed downstream actions, the sequential start-up of the   *)
(* assistants, and the audio buffer functions.                             *)
(***************************************************************************)
EXTENDS Integers, Sequences, FiniteSets, TLC

VARIABLES
    reqs,        \* the POSTs handled so far: route matched and JSON body
    rs,          \* per request: responses sent, timer, thunk, synthesis, effects
    files,       \* the TTS cache directory: artifact path -> "full" | "partial"
    userKeys,    \* configureNextUser: the users still to be activated
    pendingUser, \* the user whose assistant is created and not yet ready
    assistants,  \* map from username to assistant: the users registered
    tsIn,        \* truncateSilences: its arguments
    tsOut,       \* truncateSilences: its outcome
    cbIn,        \* chunkBuffer: its arguments
    cbOut,       \* chunkBuffer: its outcome
    conversationCounter, \* the number the next new conversation gets
    audioBuffers,  \* conversation number -> the audio received so far
    convs,         \* start call -> the conversation it opened, while it lasts
    starts,        \* the assistant.start calls made, and whether called back
    audioFiles,    \* the saved audio files: path -> contents
    config,        \* config.saveAudioFiles
    event,         \* the last function or handler run, its input and its output
    chromecasts,   \* cast: the friendly names advertised so far
    players,       \* cast: friendly name -> the player registered for it
    casts,         \* cast: the cast calls that created a client, and their progress
    castEvent      \* cast: the last function or callback run and what it issued

relayVars == <<reqs, rs, files, userKeys, pendingUser, assistants>>
truncVars == <<tsIn, tsOut>>
chunkVars == <<cbIn, cbOut>>
convVars == <<conversationCounter, audioBuffers, convs, starts, audioFiles, config, event>>
castVars == <<chromecasts, players, casts, castEvent>>
vars == <<relayVars, truncVars, chunkVars, convVars, castVars>>

----------------------------------------------------------------------------
(* Bounds *)

MaxRequests == 1
MaxTTSRequests == 2
MaxSamples == 5

----------------------------------------------------------------------------
(* JavaScript values *)

\* null / undefined of a JSON body field that holds a string
Null == "<null>"
\* what a template string prints for an undefined property
Undefined == "undefined"
\* an optional number is <<>> (absent) or <<n>>
Absent == <<>>

\* JS truthiness of a string-or-null body field
TruthyStr(s) == s # Null /\ s # ""

\* a numeric body field: absent, an integer, or a number with a fraction
\* (val is then its integer part)
NumAbsent == [kind |-> "absent", val |-> 0]
NumInt(n) == [kind |-> "int", val |-> n]
NumFrac(n) == [kind |-> "frac", val |-> n]

\* JS truthiness of a number: undefined and 0 are falsy
TruthyNum(n) == n.kind # "absent" /\ ~(n.kind = "int" /\ n.val = 0)
NumberIsInteger(n) == n.kind = "int"

----------------------------------------------------------------------------
(* config.json *)

ConfigUsers == <<"public", "global">>
UserConfigured(u) == \E k \in 1..Len(ConfigUsers) : ConfigUsers[k] = u
ConfigRelayKey(u) == "r3pl4ac3th153x4mpl3n0nc3"
ChromecastFriendlyName(u) == u

ValidRelays == {"broadcast", "broadcastAudio", "custom", "chromecastAudio",
                "chromecastTTS", "chromecastURL", "chromecastControl"}

\* relays.broadcastAudio.sounds: name -> [path, format]
BroadcastAudioSounds ==
    [s \in {"noisy", "flacky"} |->
        IF s = "noisy" THEN [path |-> "audio/foo.lpcm16", format |-> "LINEAR16"]
                       ELSE [path |-> "audio/foo.flac", format |-> "FLAC"]]

\* relays.chromecastAudio.sounds: name -> [path, contentType]
ChromecastAudioSounds ==
    [s \in {"noisy"} |-> [path |-> "audio/bar.mp3", basename |-> "bar.mp3",
                          contentType |-> "audio/mp3"]]

CachePath == "audio"
DefaultLanguage == "en-US"
DefaultGender == "NEUTRAL"
StaticUrl == "http://ip:25000/media/"

AUDIO_OUT_LINEAR16 == "LINEAR16"
MAX_BUFFER_LENGTH == 280000
MAX_SILENCE_LENGTH == 8000
SILENCE_THRESHOLD == 100

PLAY == "PLAY"
PAUSE == "PAUSE"
STOP == "STOP"
SEEK == "SEEK"

----------------------------------------------------------------------------
(* The request handler: router.post(compositeRoute, ...) *)

\* every relay of config.json is on, so relayRoutes holds all of them
RelayRoutes == ValidRelays

\* the state the relay keeps for one request
NoThunk == [fn |-> "none", user |-> "", arg |-> "", arg2 |-> "",
            bar |-> FALSE, ct |-> NumAbsent]
Fresh == [sent |-> <<>>, events |-> <<>>, timer |-> "none", ms |-> 0,
          thunk |-> NoThunk, synth |-> "none", key |-> "", hit |-> FALSE,
          threw |-> <<>>, turns |-> <<>>, callbacks |-> <<>>, read |-> <<>>,
          log |-> <<>>]

\* res.status(s).send(...): a second send on the same response throws
Send(r, status) ==
    IF r.sent = <<>>
    THEN [r EXCEPT !.sent = Append(@, status), !.events = Append(@, "res.send")]
    ELSE [r EXCEPT !.threw = Append(@, "ERR_HTTP_HEADERS_SENT")]

\* setTimeout(() => thunk, ms)
SetTimeoutRunsAtOnce(r, thunk, ms) ==
    [r EXCEPT !.timer = "fired", !.ms = ms, !.thunk = thunk,
              !.events = Append(Append(@, "timeout"), thunk.fn)]
SetTimeout(r, thunk, ms) ==
    [r EXCEPT !.timer = "pending", !.ms = ms, !.thunk = thunk,
              !.events = Append(@, "setTimeout")]

\* an exception thrown by the handler itself: Express answers it with 500
HandlerThrows(r, what) ==
    Send([r EXCEPT !.threw = Append(@, what)], 500)

\* command == null || user == null || relayKey == null
MissingFieldsKeyUnchecked(req) ==
    req.command = Null \/ req.user = Null
MissingFields(req) ==
    req.command = Null \/ req.user = Null \/ req.relayKey = Null

\* config.users[user] && relayKey === config.users[user].relayKey
AuthorizedAnyKey(req) == UserConfigured(req.user)
Authorized(req) ==
    UserConfigured(req.user) /\ req.relayKey = ConfigRelayKey(req.user)

\* delay == null ? 0 : delay * 1000
DelayMsIgnored(req) == 0
DelayMs(req) ==
    IF req.delayInSecs = Absent THEN 0 ELSE req.delayInSecs[1] * 1000

\* the validation of the chromecastControl branch
ControlValid(req) ==
    /\ TruthyStr(req.command)
    /\ \/ req.command = PLAY
       \/ req.command = PAUSE
       \/ req.command = STOP
       \/ /\ req.command = SEEK
          /\ TruthyNum(req.currentTime)
          /\ NumberIsInteger(req.currentTime)
          /\ req.currentTime.val >= 0

\* the command sent as text: the broadcast route prefixes it
TextCommandPlain(req) == req.command
TextCommand(req) ==
    IF "broadcast" \in RelayRoutes /\ req.route = "broadcast"
    THEN "broadcast " \o req.command
    ELSE req.command

\* the voice of a TTS request, the configured default when the body has none
DefaultVoice == [languageCode |-> DefaultLanguage, ssmlGender |-> DefaultGender,
                 name |-> Undefined]
VoiceOf(req) == IF req.voice = Absent THEN DefaultVoice ELSE req.voice[1]

\* `${voice.languageCode}_${voice.ssmlGender}_${voice.name}`
VoiceString(voice) ==
    voice.languageCode \o "_" \o voice.ssmlGender \o "_" \o voice.name

\* crypto.createHash('sha1').update(s).digest('hex'), taken as injective on s
Sha1Hex(s) == "sha1(" \o s \o ")"

\* the digest of command + voiceString
EncodedCommand(req) == Sha1Hex(req.command \o VoiceString(VoiceOf(req)))

\* `${cachePath}/${encodedCommand}.mp3` and the URL the static server serves it at
ArtifactPath(key) == CachePath \o "/" \o key \o ".mp3"
ArtifactUrl(key) == StaticUrl \o key \o ".mp3"

\* fs.existsSync(path)
ExistsSyncNever(fs, path) == FALSE
ExistsSync(fs, path) == path \in DOMAIN fs

----------------------------------------------------------------------------
(* The branches of the handler, one per relay *)

Thunk(fn, user, arg, arg2, bar, ct) ==
    [fn |-> fn, user |-> user, arg |-> arg, arg2 |-> arg2, bar |-> bar, ct |-> ct]

\* the broadcastAudio route: command names a preconfigured sound
BroadcastAudioBranch(req) ==
    IF req.command \notin DOMAIN BroadcastAudioSounds
    THEN Send(Fresh, 500)
    ELSE IF BroadcastAudioSounds[req.command].format # AUDIO_OUT_LINEAR16
    \* the log line reads config.sounds[command], and config.sounds is undefined
    THEN HandlerThrows(Fresh, "TypeError")
    ELSE Send(SetTimeout(Fresh,
                         Thunk("sendBroadcastAudio", req.user,
                               BroadcastAudioSounds[req.command].path,
                               BroadcastAudioSounds[req.command].format,
                               FALSE, NumAbsent),
                         DelayMs(req)),
              200)

\* the chromecastTTS route: look the artifact up, synthesize on a miss,
\* schedule the cast, acknowledge
ChromecastTTSBranch(req, fs) ==
    LET key == EncodedCommand(req)
        hit == ExistsSync(fs, ArtifactPath(key))
        looked == [Fresh EXCEPT !.key = key, !.hit = hit]
        asked == IF hit THEN looked
                 ELSE [looked EXCEPT !.synth = "pending",
                                     !.events = Append(@, "synthesizeSpeech")]
    IN  Send(SetTimeout(asked,
                        Thunk("cast.cast", ChromecastFriendlyName(req.user),
                              ArtifactUrl(key), "audio/mp3", FALSE, NumAbsent),
                        DelayMs(req)),
             200)

\* the chromecastAudio route: command names a preconfigured sound
ChromecastAudioBranch(req) ==
    IF req.command \notin DOMAIN ChromecastAudioSounds
    THEN Send(Fresh, 500)
    ELSE Send(SetTimeout(Fresh,
                         Thunk("cast.cast", ChromecastFriendlyName(req.user),
                               StaticUrl \o ChromecastAudioSounds[req.command].basename,
                               ChromecastAudioSounds[req.command].contentType,
                               FALSE, NumAbsent),
                         DelayMs(req)),
              200)

\* the chromecastURL route: command is the URL, contentType is required
ChromecastURLBranchAnyType(req) ==
    Send(SetTimeout(Fresh,
                    Thunk("cast.cast", ChromecastFriendlyName(req.user),
                          req.command, req.contentType, FALSE, NumAbsent),
                    DelayMs(req)),
         200)
ChromecastURLBranch(req) ==
    IF ~TruthyStr(req.contentType)
    THEN Send(Fresh, 500)
    ELSE Send(SetTimeout(Fresh,
                         Thunk("cast.cast", ChromecastFriendlyName(req.user),
                               req.command, req.contentType, FALSE, NumAbsent),
                         DelayMs(req)),
              200)

\* the chromecastControl route
ChromecastControlBranch(req) ==
    IF ControlValid(req)
    THEN Send(SetTimeout(Fresh,
                         Thunk("cast.control", ChromecastFriendlyName(req.user),
                               req.command, "", FALSE,
                               IF req.command = SEEK THEN req.currentTime
                                                     ELSE NumAbsent),
                         DelayMs(req)),
              200)
    ELSE Send(Fresh, 500)

\* broadcast text or custom
TextBranch(req) ==
    Send(SetTimeout(Fresh,
                    Thunk("sendTextInput", req.user, TextCommand(req), "",
                          req.broadcastAudioResponse, NumAbsent),
                    DelayMs(req)),
         200)

\* the relay chosen for an authorized request, in the order of the else-if chain
Dispatch(req, fs) ==
    IF "broadcastAudio" \in RelayRoutes /\ req.route = "broadcastAudio"
    THEN BroadcastAudioBranch(req)
    ELSE IF "chromecastTTS" \in RelayRoutes /\ req.route = "chromecastTTS"
    THEN ChromecastTTSBranch(req, fs)
    ELSE IF "chromecastAudio" \in RelayRoutes /\ req.route = "chromecastAudio"
    THEN ChromecastAudioBranch(req)
    ELSE IF "chromecastURL" \in RelayRoutes /\ req.route = "chromecastURL"
    THEN ChromecastURLBranch(req)
    ELSE IF "chromecastControl" \in RelayRoutes /\ req.route = "chromecastControl"
    THEN ChromecastControlBranch(req)
    ELSE TextBranch(req)

\* the whole handler: what one POST leaves behind when the handler returns
Handler(req, fs) ==
    IF MissingFields(req) THEN Send(Fresh, 400)
    ELSE IF Authorized(req) THEN Dispatch(req, fs)
    ELSE Send(Fresh, 403)

----------------------------------------------------------------------------
(* The log lines the handler writes *)

\* if (relayKey) relayKey = `[Redacted]`
RedactedNot(relayKey) == relayKey
Redacted(relayKey) == IF TruthyStr(relayKey) THEN "[Redacted]" ELSE relayKey

\* `${delay}`
DelayText(req) ==
    IF req.delayInSecs = Absent THEN Undefined ELSE ToString(req.delayInSecs[1])

\* the log lines of the branch of an authorized request
BranchLog(req, fs) ==
    LET command == req.command
        forUser == " for user " \o req.user \o "."
    IN  IF "broadcastAudio" \in RelayRoutes /\ req.route = "broadcastAudio"
        THEN IF command \notin DOMAIN BroadcastAudioSounds
             THEN <<"No sound " \o command \o " configured. Aborting.">>
             ELSE IF BroadcastAudioSounds[command].format # AUDIO_OUT_LINEAR16
             THEN <<>>
             ELSE <<"Sending sound " \o command \o " via broadcast" \o forUser>>
        ELSE IF "chromecastTTS" \in RelayRoutes /\ req.route = "chromecastTTS"
        THEN IF ExistsSync(fs, ArtifactPath(EncodedCommand(req)))
             THEN <<"Cache hit for TTS request \"" \o command \o "\" via Chromecast"
                    \o forUser>>
             ELSE <<"Cache miss for TTS request \"" \o command \o "\" via Chromecast"
                    \o forUser>>
        ELSE IF "chromecastAudio" \in RelayRoutes /\ req.route = "chromecastAudio"
        THEN IF command \notin DOMAIN ChromecastAudioSounds
             THEN <<"No sound " \o command \o " configured. Aborting.">>
             ELSE <<"Sending sound " \o command \o " via Chromecast" \o forUser>>
        ELSE IF "chromecastURL" \in RelayRoutes /\ req.route = "chromecastURL"
        THEN IF ~TruthyStr(req.contentType)
             THEN <<"Missing contentType. Aborting.">>
             ELSE <<"Sending contentId=" \o command \o ", contentType="
                    \o req.contentType \o " via Chromecast" \o forUser>>
        ELSE IF "chromecastControl" \in RelayRoutes /\ req.route = "chromecastControl"
        THEN IF ControlValid(req)
             THEN <<"Sending control request via Chromecast" \o forUser, command>>
             ELSE <<"Malformed request. Aborting.">>
        ELSE <<"Sending \"" \o TextCommand(req) \o "\"" \o forUser>>

\* the log lines of one run of the handler
HandlerLog(req, fs) ==
    IF MissingFields(req)
    THEN <<"Malformed request, returning 400: command: \"" \o req.command
           \o "\", user: " \o req.user \o ", relayKey: " \o Redacted(req.relayKey)
           \o ".">>
    ELSE LET received == "Received request: command: \"" \o req.command
                         \o "\", user: " \o req.user
                         \o ", relayKey: [Redacted], delayInSecs: " \o DelayText(req)
         IN  IF Authorized(req) THEN <<received>> \o BranchLog(req, fs)
             ELSE <<received, "Invalid relayKey for user " \o req.user
                              \o ", denying access.">>

\* the handler with its log
Handled(req, fs) == [Handler(req, fs) EXCEPT !.log = HandlerLog(req, fs)]

----------------------------------------------------------------------------
(* The downstream actions the timers run *)

Turn(user, textQuery, audio) ==
    [user |-> user, textQuery |-> textQuery, audio |-> audio]

\* what the callback given to assistant.start passes to startConversation
\* with the conversation; an argument left out is falsy: Absent or FALSE
Callback(user, buf, continued, broadcastAudioResponse) ==
    [user |-> user, buf |-> buf, continued |-> continued,
     broadcastAudioResponse |-> broadcastAudioResponse]

\* assistants[user].start(options, ...): a TypeError when no assistant of the
\* user is registered yet
AssistantStart(r, user, textQuery, audio, callback, registered) ==
    IF user \in registered
    THEN [r EXCEPT !.turns = Append(@, Turn(user, textQuery, audio)),
                   !.callbacks = Append(@, callback),
                   !.events = Append(@, "assistant.start")]
    ELSE [r EXCEPT !.threw = Append(@, "TypeError")]

\* sendTextInput(text, user, broadcastAudioResponse)
SendTextInputFlagLost(r, text, user, broadcastAudioResponse, registered) ==
    IF ~UserConfigured(user) THEN r
    ELSE AssistantStart(r, user, text, Absent,
                        Callback(user, Absent, FALSE, FALSE), registered)
SendTextInput(r, text, user, broadcastAudioResponse, registered) ==
    IF ~UserConfigured(user) THEN r
    ELSE AssistantStart(r, user, text, Absent,
                        Callback(user, Absent, FALSE, broadcastAudioResponse),
                        registered)

\* sendBroadcastAudioBuffer(buf, user, format); buf is <<>> when the file could
\* not be read (buf undefined), else <<its length>>
SendBroadcastAudioBufferUnlimited(r, buf, user, registered) ==
    IF ~UserConfigured(user)
    THEN [r EXCEPT !.threw = Append(@, "ReferenceError")]
    ELSE IF buf = Absent
    THEN [r EXCEPT !.threw = Append(@, "TypeError")]
    ELSE AssistantStart(r, user, "broadcast", buf,
                        Callback(user, buf, FALSE, FALSE), registered)
SendBroadcastAudioBuffer(r, buf, user, registered) ==
    IF ~UserConfigured(user)
    THEN [r EXCEPT !.threw = Append(@, "ReferenceError")]
    ELSE IF buf = Absent
    THEN [r EXCEPT !.threw = Append(@, "TypeError")]
    ELSE IF buf[1] > MAX_BUFFER_LENGTH THEN r
    ELSE AssistantStart(r, user, "broadcast", buf,
                        Callback(user, buf, FALSE, FALSE), registered)

\* the timer of a request fires: its thunk runs
Fired(r) == [r EXCEPT !.timer = "fired", !.events = Append(@, "timeout")]

\* what reading a configured sound file can give: unreadable, or its length
SoundFileReads == {Absent, <<32>>, <<MAX_BUFFER_LENGTH>>, <<MAX_BUFFER_LENGTH + 2>>}

TimeoutSendTextInput(i) ==
    /\ rs[i].timer = "pending"
    /\ rs[i].thunk.fn = "sendTextInput"
    /\ rs' = [rs EXCEPT ![i] = SendTextInput(Fired(@), @.thunk.arg, @.thunk.user,
                                             @.thunk.bar, assistants)]
    /\ UNCHANGED <<reqs, files, userKeys, pendingUser, assistants>>
    /\ UNCHANGED <<truncVars, chunkVars, convVars, castVars>>

TimeoutSendBroadcastAudio(i) ==
    /\ rs[i].timer = "pending"
    /\ rs[i].thunk.fn = "sendBroadcastAudio"
    /\ \E buf \in SoundFileReads :
          rs' = [rs EXCEPT ![i] = SendBroadcastAudioBuffer(
                                      [Fired(@) EXCEPT !.read = <<buf>>], buf,
                                      @.thunk.user, assistants)]
    /\ UNCHANGED <<reqs, files, userKeys, pendingUser, assistants>>
    /\ UNCHANGED <<truncVars, chunkVars, convVars, castVars>>

\* cast.cast(target, url, type) and cast.control(target, ctl): the call is
\* handed to the Cast Controller
TimeoutCast(i) ==
    /\ rs[i].timer = "pending"
    /\ rs[i].thunk.fn = "cast.cast"
    /\ rs' = [rs EXCEPT ![i] = [Fired(@) EXCEPT !.events = Append(@, "cast.cast")]]
    /\ UNCHANGED <<reqs, files, userKeys, pendingUser, assistants>>
    /\ UNCHANGED <<truncVars, chunkVars, convVars, castVars>>

TimeoutControl(i) ==
    /\ rs[i].timer = "pending"
    /\ rs[i].thunk.fn = "cast.control"
    /\ rs' = [rs EXCEPT ![i] = [Fired(@) EXCEPT !.events = Append(@, "cast.control")]]
    /\ UNCHANGED <<reqs, files, userKeys, pendingUser, assistants>>
    /\ UNCHANGED <<truncVars, chunkVars, convVars, castVars>>

----------------------------------------------------------------------------
(* The callback of ttsClient.synthesizeSpeech *)

\* the service answers with an error: log, res.status(500).send, return
SynthesizeError(i) ==
    /\ rs[i].synth = "pending"
    /\ rs' = [rs EXCEPT ![i] = Send([@ EXCEPT !.synth = "failed"], 500)]
    /\ UNCHANGED <<reqs, files, userKeys, pendingUser, assistants>>
    /\ UNCHANGED <<truncVars, chunkVars, convVars, castVars>>

\* fs.writeFileSync(path, audioContent, 'binary', cb) writes the whole artifact
WriteFile(fs, path, content) ==
    [p \in DOMAIN fs \cup {path} |-> IF p = path THEN content ELSE fs[p]]

SynthesizeWritten(i) ==
    /\ rs[i].synth = "pending"
    /\ rs' = [rs EXCEPT ![i].synth = "written"]
    /\ files' = WriteFile(files, ArtifactPath(rs[i].key), "full")
    /\ UNCHANGED <<reqs, userKeys, pendingUser, assistants>>
    /\ UNCHANGED <<truncVars, chunkVars, convVars, castVars>>

\* fs.writeFileSync throws: either the file could not be opened (nothing
\* changes on disk) or it was opened, truncated and only partly written.
\* The exception leaves the callback; the fourth argument is never called.
SynthesizeWriteFails(i) ==
    /\ rs[i].synth = "pending"
    /\ rs' = [rs EXCEPT ![i] = [@ EXCEPT !.synth = "writeFailed",
                                         !.threw = Append(@, "WriteError")]]
    /\ \/ files' = files
       \/ files' = WriteFile(files, ArtifactPath(rs[i].key), "partial")
    /\ UNCHANGED <<reqs, userKeys, pendingUser, assistants>>
    /\ UNCHANGED <<truncVars, chunkVars, convVars, castVars>>

----------------------------------------------------------------------------
(* Start-up: configureNextUser *)

\* setTimeout(() => configureNextUser(Object.keys(config.users)), 500), and the
\* call from the 'ready' handler: shift the next user and create its assistant
ConfigureAllUsers ==
    /\ userKeys # <<>>
    /\ pendingUser = Null
    /\ userKeys = ConfigUsers
    /\ assistants = {}
    /\ pendingUser' = userKeys[Len(userKeys)]
    /\ userKeys' = <<>>
    /\ UNCHANGED <<reqs, rs, files, assistants>>
    /\ UNCHANGED <<truncVars, chunkVars, convVars, castVars>>

ConfigureNextUser ==
    /\ userKeys # <<>>
    /\ pendingUser = Null
    /\ userKeys = ConfigUsers
    /\ assistants = {}
    /\ pendingUser' = Head(userKeys)
    /\ userKeys' = Tail(userKeys)
    /\ UNCHANGED <<reqs, rs, files, assistants>>
    /\ UNCHANGED <<truncVars, chunkVars, convVars, castVars>>

\* 'ready': register the assistant, then configure the next user if any
AssistantReady ==
    /\ pendingUser # Null
    /\ assistants' = assistants \cup {pendingUser}
    /\ IF Len(userKeys) > 0
       THEN pendingUser' = Head(userKeys) /\ userKeys' = Tail(userKeys)
       ELSE pendingUser' = Null /\ userKeys' = userKeys
    /\ UNCHANGED <<reqs, rs, files>>
    /\ UNCHANGED <<truncVars, chunkVars, convVars, castVars>>

\* 'error': only a log line; nobody configures the users still in the list
AssistantError ==
    /\ pendingUser # Null
    /\ pendingUser' = Null
    /\ UNCHANGED <<reqs, rs, files, userKeys, assistants>>
    /\ UNCHANGED <<truncVars, chunkVars, convVars, castVars>>

----------------------------------------------------------------------------
(* The requests posted to the relay *)

Req(route, command, user, relayKey, delayInSecs, voice, contentType, cur, bar) ==
    [route |-> route, command |-> command, user |-> user, relayKey |-> relayKey,
     delayInSecs |-> delayInSecs, voice |-> voice, contentType |-> contentType,
     currentTime |-> cur, broadcastAudioResponse |-> bar]

\* a request with only the three required fields
Plain(route, command, user, relayKey, delayInSecs) ==
    Req(route, command, user, relayKey, delayInSecs, Absent, Null, NumAbsent, FALSE)

ValidKey == ConfigRelayKey("global")
Delays == {Absent, <<2>>}

\* a command the route accepts
RouteCommand(route) ==
    CASE route \in {"broadcastAudio", "chromecastAudio"} -> "noisy"
      [] route = "chromecastControl" -> PLAY
      [] OTHER -> "hello"

\* bodies in which at least one required field is absent
MalformedRequests ==
    { Plain(route, IF c THEN RouteCommand(route) ELSE Null, u, k, Absent) :
        route \in ValidRelays,
        c \in BOOLEAN,
        u \in {"global", Null},
        k \in {ValidKey, "bad", Null} }
    \ { Plain(route, RouteCommand(route), "global", k, Absent) :
        route \in ValidRelays, k \in {ValidKey, "bad"} }

\* complete bodies whose key is wrong or whose user is not configured
DeniedRequests ==
    { Plain(route, RouteCommand(route), uk[1], uk[2], d) :
        route \in ValidRelays,
        uk \in {<<"global", "bad">>, <<"nobody", ValidKey>>, <<"nobody", "bad">>},
        d \in Delays }

Voices == {Absent, <<[languageCode |-> "en-GB", ssmlGender |-> "FEMALE",
                      name |-> Undefined]>>}

ControlInputs ==
    { <<c, NumAbsent>> : c \in {PLAY, PAUSE, STOP, "hello", ""} }
    \cup { <<PLAY, NumInt(-5)>> }
    \cup { <<SEEK, t>> : t \in {NumAbsent, NumInt(-5), NumInt(0), NumInt(3),
                                NumFrac(1)} }

\* complete bodies with the right key of a configured user
AuthenticatedRequests(user) ==
    LET R(route, c, d, v, ct, cur, bar) ==
            Req(route, c, user, ConfigRelayKey(user), d, v, ct, cur, bar)
    IN  UNION {
          { R("broadcast", "hello", d, Absent, Null, NumAbsent, FALSE),
            R("broadcast", "hello", d, Absent, Null, NumAbsent, TRUE),
            R("custom", "hello", d, Absent, Null, NumAbsent, FALSE),
            R("custom", "hello", d, Absent, Null, NumAbsent, TRUE) }
          \cup { R("broadcastAudio", c, d, Absent, Null, NumAbsent, FALSE) :
                   c \in {"noisy", "flacky", "hello"} }
          \cup { R("chromecastAudio", c, d, Absent, Null, NumAbsent, FALSE) :
                   c \in {"noisy", "hello"} }
          \cup { R("chromecastTTS", c, d, v, Null, NumAbsent, FALSE) :
                   c \in {"hello", "bye"}, v \in Voices }
          \cup { R("chromecastURL", "http://x/a.mp3", d, Absent, ct, NumAbsent, FALSE) :
                   ct \in {Null, "", "audio/mp3"} }
          \cup { R("chromecastControl", ci[1], d, Absent, Null, ci[2], FALSE) :
                   ci \in ControlInputs }
          : d \in Delays }

Requests == MalformedRequests \cup DeniedRequests \cup AuthenticatedRequests("global")

\* the TTS requests, for the cache under concurrent requests
TTSRequests ==
    { r \in AuthenticatedRequests("global") : r.route = "chromecastTTS" }

----------------------------------------------------------------------------
(* The relay as a state machine *)

\* one POST: the handler runs to its return
PostRequest(req) ==
    /\ reqs' = Append(reqs, req)
    /\ rs' = Append(rs, Handled(req, files))
    /\ UNCHANGED <<files, userKeys, pendingUser, assistants>>
    /\ UNCHANGED <<truncVars, chunkVars, convVars, castVars>>

Post ==
    /\ Len(reqs) < MaxRequests
    /\ \E req \in Requests : PostRequest(req)

PostTTS ==
    /\ Len(reqs) < MaxTTSRequests
    /\ \E req \in TTSRequests : PostRequest(req)

RelayInit ==
    /\ reqs = <<>>
    /\ rs = <<>>
    /\ files = <<>>
    /\ userKeys = ConfigUsers
    /\ pendingUser = Null
    /\ assistants = {}

\* the relay with every assistant registered
RelayUpInit ==
    /\ reqs = <<>>
    /\ rs = <<>>
    /\ files = <<>>
    /\ userKeys = <<>>
    /\ pendingUser = Null
    /\ assistants = {ConfigUsers[k] : k \in 1..Len(ConfigUsers)}

TruncIdle ==
    /\ tsIn = <<>>
    /\ tsOut = <<>>

\* no chunkBuffer call: the function is referenced by no code path
ChunkIdle ==
    /\ cbIn = <<>>
    /\ cbOut = <<>>

\* no conversation yet
ConvIdle ==
    /\ conversationCounter = 0
    /\ audioBuffers = [cc \in {} |-> <<>>]
    /\ convs = [s \in {} |-> <<>>]
    /\ starts = <<>>
    /\ audioFiles = [path \in {} |-> <<>>]
    /\ config = [saveAudioFiles |-> FALSE]
    /\ event = [name |-> "", conv |-> 0, text |-> "", error |-> FALSE,
                continueConversation |-> FALSE, writes |-> <<>>, ends |-> 0,
                handed |-> <<>>]

\* no advertisement, no cast and no control yet
PlayerUndefined == [kind |-> "undefined", id |-> 0]
CastIdle ==
    /\ chromecasts = {}
    /\ players = [n \in {"public", "bedrooms"} |-> PlayerUndefined]
    /\ casts = <<>>
    /\ castEvent = [name |-> "", serviceName |-> "", issued |-> <<>>]

Init == RelayInit /\ TruncIdle /\ ChunkIdle /\ ConvIdle /\ CastIdle

Next ==
    \/ Post
    \/ \E i \in 1..Len(rs) : TimeoutSendTextInput(i)
    \/ \E i \in 1..Len(rs) : TimeoutSendBroadcastAudio(i)
    \/ \E i \in 1..Len(rs) : TimeoutCast(i)
    \/ \E i \in 1..Len(rs) : TimeoutControl(i)
    \/ \E i \in 1..Len(rs) : SynthesizeError(i)
    \/ \E i \in 1..Len(rs) : SynthesizeWritten(i)
    \/ \E i \in 1..Len(rs) : SynthesizeWriteFails(i)
    \/ ConfigureNextUser
    \/ AssistantReady
    \/ AssistantError

Spec == Init /\ [][Next]_vars

TTSInit == RelayUpInit /\ TruncIdle /\ ChunkIdle /\ ConvIdle /\ CastIdle

TTSNext ==
    \/ PostTTS
    \/ \E i \in 1..Len(rs) : TimeoutCast(i)
    \/ \E i \in 1..Len(rs) : SynthesizeError(i)
    \/ \E i \in 1..Len(rs) : SynthesizeWritten(i)
    \/ \E i \in 1..Len(rs) : SynthesizeWriteFails(i)

SpecTTS == TTSInit /\ [][TTSNext]_vars

----------------------------------------------------------------------------
(* Properties of the relay handler *)

Positions(r, names) == {p \in 1..Len(r.events) : r.events[p] \in names}

\* the invocations of the Assistant Session and of the Cast Controller
DownstreamEvents == {"assistant.start", "cast.cast", "cast.control"}

\* the request left nothing behind but its one answer
OnlyAnswered(r, status) ==
    /\ r.sent = <<status>>
    /\ r.events = <<"res.send">>
    /\ r.timer = "none"
    /\ r.synth = "none"
    /\ r.turns = <<>>

WrongKey(req) ==
    /\ req.command # Null /\ req.user # Null /\ req.relayKey # Null
    /\ \/ ~UserConfigured(req.user)
       \/ req.relayKey # ConfigRelayKey(req.user)

ControlRequest(req) ==
    /\ req.route = "chromecastControl"
    /\ req.command # Null
    /\ UserConfigured(req.user)
    /\ req.relayKey = ConfigRelayKey(req.user)

\* one of PLAY, PAUSE, STOP, SEEK, and for SEEK a non-negative integer time
ControlWellFormed(req) ==
    \/ req.command \in {PLAY, PAUSE, STOP}
    \/ /\ req.command = SEEK
       /\ req.currentTime.kind = "int"
       /\ req.currentTime.val >= 0

ControlAccepted(r) ==
    /\ r.sent = <<200>>
    /\ r.timer # "none"
    /\ r.thunk.fn = "cast.control"

\* C3: an authenticated request on the cast-control route is accepted if and
\* only if its command is PLAY, PAUSE, STOP or SEEK and, for SEEK, currentTime
\* is a non-negative integer, 0 included; otherwise it is rejected and nothing
\* reaches the Cast Controller.
C3_ControlValidation ==
    \A i \in 1..Len(reqs) :
        ControlRequest(reqs[i]) =>
            IF ControlWellFormed(reqs[i])
            THEN ControlAccepted(rs[i])
            ELSE /\ rs[i].sent # <<200>>
                 /\ rs[i].timer = "none"
                 /\ Positions(rs[i], DownstreamEvents) = {}

\* C4: for every accepted request the 200 is sent before the downstream action
\* starts; the answer never waits for the timer.
C4_AckBeforeAction ==
    \A i \in 1..Len(reqs) :
        /\ rs[i].timer # "none" => rs[i].sent = <<200>>
        /\ \A p \in Positions(rs[i], DownstreamEvents \cup {"timeout"}) :
              \E q \in Positions(rs[i], {"res.send"}) : q < p

C4_Witness ==
    \E i \in 1..Len(reqs) :
        /\ rs[i].sent = <<200>>
        /\ rs[i].timer = "fired"
        /\ Positions(rs[i], {"assistant.start"}) # {}

\* C5 as stated: whatever the command kind, no external capability, the
\* Synthesis Service included, is invoked for a request before its timer fired.
C5_NothingBeforeTimer ==
    \A i \in 1..Len(reqs) :
        rs[i].timer = "pending" =>
            Positions(rs[i], DownstreamEvents \cup {"synthesizeSpeech"}) = {}

\* C5 amended: no turn of the Assistant Session and no Cast Controller call is
\* made for a request before its timer fired, and the timer runs for
\* delayInSecs * 1000 ms, 0 when delayInSecs is absent; the Synthesis Service
\* is called by the handler itself, before the timer.
C5_DownstreamAfterTimer ==
    \A i \in 1..Len(reqs) :
        /\ rs[i].timer = "pending" => Positions(rs[i], DownstreamEvents) = {}
        /\ \A p \in Positions(rs[i], DownstreamEvents) :
              \E q \in Positions(rs[i], {"timeout"}) : q < p
        /\ rs[i].timer # "none" =>
              rs[i].ms = IF reqs[i].delayInSecs = Absent THEN 0
                         ELSE reqs[i].delayInSecs[1] * 1000
        /\ \A p \in Positions(rs[i], {"synthesizeSpeech"}) :
              \A q \in Positions(rs[i], {"timeout"}) : p < q

C5_Witness ==
    \E i \in 1..Len(reqs) :
        /\ reqs[i].route = "chromecastTTS"
        /\ reqs[i].delayInSecs = <<2>>
        /\ rs[i].ms = 2000
        /\ rs[i].events = <<"synthesizeSpeech", "setTimeout", "res.send",
                            "timeout", "cast.cast">>

ScenarioA(req) ==
    /\ req.route = "broadcast"
    /\ req.command = "hello"
    /\ req.user = "global"
    /\ req.relayKey = ConfigRelayKey("global")

----------------------------------------------------------------------------
(* Properties of the TTS cache *)

\* the requests that called the Synthesis Service for an artifact path
Synthesized(path) ==
    {i \in 1..Len(rs) : rs[i].synth # "none" /\ ArtifactPath(rs[i].key) = path}

SamePair(a, b) == a.command = b.command /\ VoiceOf(a) = VoiceOf(b)

\* C7 as stated: under any interleaving the Synthesis Service is invoked at
\* most once per distinct (text, voice) pair.
C7_OneSynthesisPerPair ==
    \A i, j \in 1..Len(reqs) :
        (/\ SamePair(reqs[i], reqs[j])
         /\ rs[i].synth # "none"
         /\ rs[j].synth # "none") => i = j

\* C7 amended: requests with the same text and voice resolve to the same
\* artifact path; a request that finds the artifact present is a hit and calls
\* no synthesis, so once an artifact exists for a pair no later request for it
\* invokes the Synthesis Service; requests that arrive before the first write
\* has happened each miss and each invoke it.
C7_NoSynthesisOnceCached ==
    /\ [](\A i, j \in 1..Len(reqs) :
            /\ SamePair(reqs[i], reqs[j]) => rs[i].thunk.arg = rs[j].thunk.arg
            /\ rs[i].hit => rs[i].synth = "none")
    /\ [][\A path \in DOMAIN files :
            {i \in 1..Len(rs') : rs'[i].synth # "none"
                                 /\ ArtifactPath(rs'[i].key) = path}
            = Synthesized(path)]_vars
    /\ [][\A i \in 1..Len(rs') :
            i > Len(rs) =>
                (rs'[i].hit <=> ArtifactPath(rs'[i].key) \in DOMAIN files)]_vars

C7_Witness ==
    \E i, j \in 1..Len(reqs) :
        /\ i < j
        /\ SamePair(reqs[i], reqs[j])
        /\ rs[i].synth = "written"
        /\ rs[j].hit
        /\ rs[j].synth = "none"
        /\ rs[j].timer = "fired"

\* C8: when the synthesis call, or the write of its result, fails for a TTS
\* request, the answer its caller gets is a server error, not the 200.
C8_SynthesisFailureReported ==
    \A i \in 1..Len(reqs) :
        rs[i].synth \in {"failed", "writeFailed"} => rs[i].sent = <<500>>

\* C9: an artifact exists at the path of a key only if a synthesis call for
\* that key returned and its bytes were written in full.
C9_CompleteOrAbsent ==
    \A path \in DOMAIN files :
        /\ files[path] = "full"
        /\ \E i \in 1..Len(rs) :
              ArtifactPath(rs[i].key) = path /\ rs[i].synth = "written"

----------------------------------------------------------------------------
(* The audio buffer functions.  A Buffer is a sequence of bytes; the source's
   offsets are 0-based. *)

\* buf.readInt16LE(i)
ReadInt16LE(buf, i) ==
    LET u == buf[i + 1] + 256 * buf[i + 2]
    IN  IF u >= 32768 THEN u - 65536 ELSE u

\* the two bytes of a signed 16-bit sample, little-endian
WriteInt16LE(v) ==
    LET u == IF v < 0 THEN v + 65536 ELSE v
    IN  <<u % 256, u \div 256>>

\* buf.slice(a, b) and buf.slice(a), offsets clamped to the buffer
Slice(buf, a, b) ==
    LET lo == IF a > Len(buf) THEN Len(buf) ELSE a
        hi == IF b > Len(buf) THEN Len(buf) ELSE b
    IN  SubSeq(buf, lo + 1, hi)
SliceFrom(buf, a) == Slice(buf, a, Len(buf))

\* the for loop of truncateSilences from offset i on, with its locals; end is
\* <<>> for null.  readInt16LE throws a RangeError on less than two bytes.
RECURSIVE TruncateLoop(_, _, _, _, _, _)
TruncateLoop(buf, i, start, end, maxSamples, threshold) ==
    IF ~(i < Len(buf)) THEN [buf |-> buf, threw |-> ""]
    ELSE IF i + 2 > Len(buf) THEN [buf |-> buf, threw |-> "RangeError"]
    ELSE IF ReadInt16LE(buf, i) < threshold
    THEN TruncateLoop(buf, i + 2, IF end = Absent THEN i ELSE start, <<i>>,
                      maxSamples, threshold)
    ELSE IF end # Absent
    THEN IF end[1] - start + 2 > maxSamples
         THEN LET deleteCount == end[1] - start - maxSamples + 2
                  cut == Slice(buf, 0, start) \o SliceFrom(buf, start + deleteCount)
              IN  TruncateLoop(cut, (i - deleteCount) + 2, start, Absent,
                               maxSamples, threshold)
         ELSE TruncateLoop(buf, i + 2, start, Absent, maxSamples, threshold)
    ELSE TruncateLoop(buf, i + 2, start, end, maxSamples, threshold)

\* truncateSilences(buf, maxSamples, threshold)
TruncateSilences(buf, maxSamples, threshold) ==
    TruncateLoop(buf, 0, 0, Absent, maxSamples, threshold)

----------------------------------------------------------------------------
(* truncateSilences applied to bounded buffers *)

\* sample values: two silent ones (below the threshold as signed numbers) and
\* two that are not
SampleValues == {0, -200, 100, 300}

RECURSIVE Encode(_)
Encode(samples) ==
    IF samples = <<>> THEN <<>>
    ELSE WriteInt16LE(Head(samples)) \o Encode(Tail(samples))

SampleSeqs == UNION {[1..n -> SampleValues] : n \in 0..MaxSamples}
MaxSilences == {2, 3, 4}

\* the whole 16-bit samples of a buffer, read from offset 0
Decode(buf) == [k \in 1..(Len(buf) \div 2) |-> ReadInt16LE(buf, 2 * (k - 1))]

\* the lengths, in samples, of the runs of consecutive silent samples
SilentRuns(samples, threshold) ==
    { b - a + 1 : <<a, b>> \in
        { ab \in (1..Len(samples)) \X (1..Len(samples)) :
            /\ ab[1] <= ab[2]
            /\ \A k \in ab[1]..ab[2] : samples[k] < threshold } }

TruncInit ==
    /\ \E samples \in SampleSeqs, m \in MaxSilences :
          tsIn = [samples |-> samples, buf |-> Encode(samples),
                  maxSamples |-> m, threshold |-> SILENCE_THRESHOLD]
    /\ tsOut = <<>>
    /\ RelayInit
    /\ ChunkIdle
    /\ ConvIdle
    /\ CastIdle

\* one call of truncateSilences on the chosen buffer
Truncate ==
    /\ tsOut = <<>>
    /\ tsOut' = <<TruncateSilences(tsIn.buf, tsIn.maxSamples, tsIn.threshold)>>
    /\ UNCHANGED tsIn
    /\ UNCHANGED <<relayVars, chunkVars, convVars, castVars>>

\* truncateSilences applied once more, to the buffer it returned
TruncateAgain ==
    /\ Len(tsOut) = 1
    /\ tsOut[1].threw = ""
    /\ tsOut' = Append(tsOut, TruncateSilences(tsOut[1].buf, tsIn.maxSamples,
                                               tsIn.threshold))
    /\ UNCHANGED tsIn
    /\ UNCHANGED <<relayVars, chunkVars, convVars, castVars>>

TruncNext == Truncate \/ TruncateAgain

SpecTrunc == TruncInit /\ [][TruncNext]_vars

\* C10: every maximal run of consecutive silent samples of the buffer that
\* truncateSilences returns has at most maxSilenceSamples samples, wherever the
\* run lies: at the start, in the middle or at the end.
C10_RunsBounded ==
    tsOut # <<>> =>
        \A n \in SilentRuns(Decode(tsOut[1].buf), tsIn.threshold) :
            n <= tsIn.maxSamples


\* the samples of a sequence that are not silent, in order
RECURSIVE Loud(_, _)
Loud(samples, threshold) ==
    IF samples = <<>> THEN <<>>
    ELSE IF Head(samples) < threshold THEN Loud(Tail(samples), threshold)
    ELSE <<Head(samples)>> \o Loud(Tail(samples), threshold)

AllSilent(samples, threshold) == \A k \in 1..Len(samples) : samples[k] < threshold

\* C12: a buffer of silent samples only, longer than maxSilenceSamples, comes
\* back as a single silent run of exactly maxSilenceSamples samples.
C12_AllSilentTruncated ==
    (/\ tsOut # <<>>
     /\ AllSilent(tsIn.samples, tsIn.threshold)
     /\ Len(tsIn.samples) > tsIn.maxSamples)
        => /\ tsOut[1].threw = ""
           /\ Len(tsOut[1].buf) = 2 * tsIn.maxSamples
           /\ AllSilent(Decode(tsOut[1].buf), tsIn.threshold)

\* C13: truncateSilences only deletes samples of silent runs longer than
\* maxSilenceSamples: the result is no longer than the input, keeps every
\* non-silent sample with its value and order, and is the input itself when no
\* silent run is longer than maxSilenceSamples.
C13_OnlyLongSilenceDeleted ==
    tsOut # <<>> =>
        /\ tsOut[1].threw = ""
        /\ Len(tsOut[1].buf) <= Len(tsIn.buf)
        /\ Loud(Decode(tsOut[1].buf), tsIn.threshold) = Loud(tsIn.samples, tsIn.threshold)
        /\ (\A n \in SilentRuns(tsIn.samples, tsIn.threshold) : n <= tsIn.maxSamples)
              => tsOut[1].buf = tsIn.buf

\* C14: truncateSilences is idempotent: applied to its own result it returns
\* that result.
C14_Idempotent ==
    Len(tsOut) = 2 => tsOut[2] = tsOut[1]

\* C15: for an even-length buffer and any positive maxSilenceSamples, odd
\* values included, the buffer truncateSilences returns has even length.
C15_EvenLength ==
    (tsOut # <<>> /\ Len(tsIn.buf) % 2 = 0 /\ tsIn.maxSamples > 0)
        => Len(tsOut[1].buf) % 2 = 0

----------------------------------------------------------------------------
(* chunkBuffer *)

MaxChunkSamples == 6

\* i < maxLength: the end of a silent run may serve as the end of a chunk
MarkWithinLengthLate(i, maxLength) == i < maxLength + 4
MarkWithinLength(i, maxLength) == i < maxLength

\* buf = buf.slice(mark): what is left to chunk after a cut
ChunkRestSkipping(buf, mark) == SliceFrom(buf, mark + 2)
ChunkRest(buf, mark) == SliceFrom(buf, mark)

ChunkError == "Unable to create chunk shorter than maxLength from buffer. Aborting."

\* the for loop of chunkBuffer from offset i on, with its locals; end is <<>>
\* for null.  A throw leaves the function without its list of chunks.
RECURSIVE ChunkLoop(_, _, _, _, _, _, _, _, _)
ChunkLoop(buf, bufs, i, start, end, endMarks, minSamples, maxLength, threshold) ==
    IF ~(i < Len(buf)) THEN [bufs |-> Append(bufs, buf), threw |-> ""]
    ELSE IF i + 2 > Len(buf) THEN [bufs |-> <<>>, threw |-> "RangeError"]
    ELSE IF ReadInt16LE(buf, i) < threshold
    THEN ChunkLoop(buf, bufs, i + 2, IF end = Absent THEN i ELSE start, <<i>>,
                   endMarks, minSamples, maxLength, threshold)
    ELSE IF end # Absent /\ end[1] - start + 2 > minSamples
    THEN IF MarkWithinLength(i, maxLength)
         THEN ChunkLoop(buf, bufs, i + 2, start, Absent, Append(endMarks, i),
                        minSamples, maxLength, threshold)
         ELSE IF Len(endMarks) = 0
         THEN [bufs |-> <<>>, threw |-> ChunkError]
         ELSE LET mark == endMarks[Len(endMarks)]
              IN  ChunkLoop(ChunkRest(buf, mark), Append(bufs, Slice(buf, 0, mark)),
                            0 + 2, 0, Absent, <<>>, minSamples, maxLength, threshold)
    ELSE ChunkLoop(buf, bufs, i + 2, start, end, endMarks, minSamples, maxLength,
                   threshold)

\* chunkBuffer(buf, minSamples, maxLength, threshold)
ChunkBuffer(buf, minSamples, maxLength, threshold) ==
    ChunkLoop(buf, <<>>, 0, 0, Absent, <<>>, minSamples, maxLength, threshold)

\* sample values for chunkBuffer: one silent, one at the threshold, one loud
ChunkSampleValues == {-200, SILENCE_THRESHOLD, 300}
ChunkSampleSeqs == UNION {[1..n -> ChunkSampleValues] : n \in 0..MaxChunkSamples}
MinSilences == {1, 2, 3}
MaxChunkLengths == {4, 6, 8}

ChunkInit ==
    /\ \E samples \in ChunkSampleSeqs, mn \in MinSilences, mx \in MaxChunkLengths :
          cbIn = [samples |-> samples, buf |-> Encode(samples), minSamples |-> mn,
                  maxLength |-> mx, threshold |-> SILENCE_THRESHOLD]
    /\ cbOut = <<>>
    /\ RelayInit
    /\ TruncIdle
    /\ ConvIdle
    /\ CastIdle

\* one call of chunkBuffer on the chosen buffer
Chunk ==
    /\ cbOut = <<>>
    /\ cbOut' = <<ChunkBuffer(cbIn.buf, cbIn.minSamples, cbIn.maxLength,
                              cbIn.threshold)>>
    /\ UNCHANGED cbIn
    /\ UNCHANGED <<relayVars, truncVars, convVars, castVars>>

ChunkNext == Chunk
SpecChunk == ChunkInit /\ [][ChunkNext]_vars

RECURSIVE Concat(_)
Concat(seqs) == IF seqs = <<>> THEN <<>> ELSE Head(seqs) \o Concat(Tail(seqs))

\* C16: when chunkBuffer returns, the chunks in order concatenate to the input
\* buffer, the remainder being the last chunk.
C16_ChunksConcatenate ==
    (cbOut # <<>> /\ cbOut[1].threw = "")
        => /\ Len(cbOut[1].bufs) >= 1
           /\ Concat(cbOut[1].bufs) = cbIn.buf

\* chunkBuffer cut the buffer at least twice
C16_Witness ==
    /\ cbOut # <<>>
    /\ cbOut[1].threw = ""
    /\ Len(cbOut[1].bufs) >= 3
    /\ \A k \in 1..Len(cbOut[1].bufs) : Len(cbOut[1].bufs[k]) > 0

\* C17: every chunk chunkBuffer returns, except possibly the last, is at most
\* maxChunkLength long.
C17_ChunksBounded ==
    (cbOut # <<>> /\ cbOut[1].threw = "")
        => \A k \in 1..(Len(cbOut[1].bufs) - 1) :
              Len(cbOut[1].bufs[k]) <= cbIn.maxLength

\* chunkBuffer cut a buffer longer than maxChunkLength into two chunks
C17_Witness ==
    /\ cbOut # <<>>
    /\ cbOut[1].threw = ""
    /\ Len(cbIn.buf) > cbIn.maxLength
    /\ Len(cbOut[1].bufs) = 2

\* a silent run of at least minSamples samples ends at a byte offset before
\* maxLength
CutPointBefore(samples, minSamples, maxLength, threshold) ==
    \E a \in 1..Len(samples), b \in 1..Len(samples) :
        /\ a <= b
        /\ b - a + 1 >= minSamples
        /\ \A k \in a..b : samples[k] < threshold
        /\ b < Len(samples) /\ ~(samples[b + 1] < threshold)
        /\ 2 * b < maxLength

\* C18: chunkBuffer fails with ChunkingImpossible, with no chunk emitted, on a
\* buffer longer than maxChunkLength in which no silent run of at least
\* minSilenceSamples ends before position maxChunkLength.
C18_FailsWithoutCutPoint ==
    (/\ cbOut # <<>>
     /\ Len(cbIn.buf) > cbIn.maxLength
     /\ ~CutPointBefore(cbIn.samples, cbIn.minSamples, cbIn.maxLength, cbIn.threshold))
        => /\ cbOut[1].threw = ChunkError
           /\ cbOut[1].bufs = <<>>

----------------------------------------------------------------------------
(* Conversations: sendTextInput, sendBroadcastAudioBuffer, startConversation.
   Audio lengths are scaled down: one byte of the model stands for a thousand
   bytes of audio, so that MAX_SILENCE_LENGTH is 8, a frame 16 bytes. *)

MaxStarts == 3

Scaled(n) == n \div 1000

\* one assistants[user].start(options, callback) call; cc is <<>> when the
\* callback takes the next conversationCounter, <<n>> when it continues n
StartCall(user, textQuery, buf, format, continued, bar, cc) ==
    [user |-> user, textQuery |-> textQuery, buf |-> buf, format |-> format,
     continued |-> continued, broadcastAudioResponse |-> bar, cc |-> cc,
     called |-> FALSE]

\* sendTextInput(text, user, broadcastAudioResponse): the start calls after it
ConvSendTextInputOtherUser(sts, text, user, bar) ==
    Append(sts, StartCall(CHOOSE u \in assistants : u # user, text, Absent, Null,
                          FALSE, bar, Absent))
ConvSendTextInput(sts, text, user, bar) ==
    IF ~UserConfigured(user) THEN sts
    ELSE Append(sts, StartCall(user, text, Absent, Null, FALSE, bar, Absent))

\* sendBroadcastAudioBuffer(buf, user, format): the start calls after it (none
\* for an unconfigured user, whose log line throws, and none for a long buffer)
ConvSendBroadcastAudioBuffer(sts, buf, user, format) ==
    IF ~UserConfigured(user) THEN sts
    ELSE IF Len(buf) > Scaled(MAX_BUFFER_LENGTH) THEN sts
    ELSE Append(sts, StartCall(user, "broadcast", <<buf>>, format, FALSE, FALSE, Absent))

\* i+16000 < buf.length ? i+16000 : buf.length
FrameEndWhole(buf, i) == Len(buf)
FrameEnd(buf, i) ==
    IF i + Scaled(16000) < Len(buf) THEN i + Scaled(16000) ELSE Len(buf)

\* the frames startConversation writes for a continued audio turn
RECURSIVE Frames(_, _)
Frames(buf, i) ==
    IF ~(i < Len(buf)) THEN <<>>
    ELSE <<Slice(buf, i, FrameEnd(buf, i))>> \o Frames(buf, i + Scaled(16000))

\* const silence = new Int16Array(32000)
Silence == [k \in 1..Scaled(2 * 32000) |-> 0]

\* what a startConversation call closes over, and the number of audio-data
\* frames the assistant has sent it
Conversation(st, cc) ==
    [cc |-> cc, user |-> st.user, buf |-> st.buf, format |-> st.format,
     continued |-> st.continued, broadcastAudioResponse |-> st.broadcastAudioResponse,
     frames |-> 0]

\* the conversation.write calls of startConversation
Writes(st) ==
    IF st.buf # Absent /\ st.continued THEN Append(Frames(st.buf[1], 0), Silence)
    ELSE <<>>

\* `./audio-${conversationCounter}.lpcm16`
AudioPath(cc) == "./audio-" \o ToString(cc) \o ".lpcm16"

\* delete audioBuffers[conversationCounter]
DeleteNothing(f, k) == f
Delete(f, k) == [x \in DOMAIN f \ {k} |-> f[x]]
Put(f, k, v) == [x \in DOMAIN f \cup {k} |-> IF x = k THEN v ELSE f[x]]

\* the audio-data frames the assistant sends in one turn, in order: a silent
\* run longer than MAX_SILENCE_LENGTH bytes ended by a loud sample, then another
\* loud sample
Quiet(n) == [k \in 1..n |-> 0]
ReplyFrames ==
    <<Encode(Quiet(Scaled(MAX_SILENCE_LENGTH) \div 2 + 1) \o <<300>>),
      Encode(<<300>>)>>

\* the audio of a configured sound
SoundBuf == Encode(<<300, 300>>)

Event(name, conv) ==
    [name |-> name, conv |-> conv, text |-> "", error |-> FALSE,
     continueConversation |-> FALSE, writes |-> <<>>, ends |-> 0, handed |-> <<>>]

ConvInit ==
    /\ conversationCounter = 0
    /\ audioBuffers = [cc \in {} |-> <<>>]
    /\ convs = [s \in {} |-> <<>>]
    /\ starts = <<>>
    /\ audioFiles = [path \in {} |-> <<>>]
    /\ config \in [saveAudioFiles : BOOLEAN]
    /\ event = Event("", 0)
    /\ RelayUpInit
    /\ TruncIdle
    /\ ChunkIdle
    /\ CastIdle

\* a timer of the relay calls sendTextInput(text, user, broadcastAudioResponse);
\* one command of the relay is followed through the conversations it leads to
CallSendTextInput ==
    /\ starts = <<>>
    /\ \E bar \in BOOLEAN :
          starts' = ConvSendTextInput(starts, "hello", "public", bar)
    /\ event' = Event("sendTextInput", 0)
    /\ UNCHANGED <<conversationCounter, audioBuffers, convs, audioFiles, config>>
    /\ UNCHANGED <<relayVars, truncVars, chunkVars, castVars>>

\* a timer of the relay calls sendBroadcastAudioBuffer(buf, user, format)
CallSendBroadcastAudioBuffer ==
    /\ starts = <<>>
    /\ starts' = ConvSendBroadcastAudioBuffer(starts, SoundBuf, "global",
                                               AUDIO_OUT_LINEAR16)
    /\ event' = Event("sendBroadcastAudioBuffer", 0)
    /\ UNCHANGED <<conversationCounter, audioBuffers, convs, audioFiles, config>>
    /\ UNCHANGED <<relayVars, truncVars, chunkVars, castVars>>

\* the number a start callback passes to startConversation: conversationCounter++
\* for a new conversation, the number it closed over for a continuation
ConversationIdFresh(st, counter) == counter
ConversationId(st, counter) == IF st.cc = Absent THEN counter ELSE st.cc[1]

\* the assistant calls a start callback: startConversation runs
\* the counter after a start callback: conversationCounter++ is evaluated in
\* the callbacks of sendTextInput and sendBroadcastAudioBuffer only
CounterAfterSame(st, counter) == counter
CounterAfter(st, counter) == IF st.cc = Absent THEN counter + 1 ELSE counter

StartConversation(s) ==
    /\ ~starts[s].called
    /\ starts' = [starts EXCEPT ![s].called = TRUE]
    /\ convs' = Put(convs, s, Conversation(starts[s],
                                  ConversationId(starts[s], conversationCounter)))
    /\ conversationCounter' = CounterAfter(starts[s], conversationCounter)
    /\ event' = [Event("startConversation", s) EXCEPT !.writes = Writes(starts[s])]
    /\ UNCHANGED <<audioBuffers, audioFiles, config>>
    /\ UNCHANGED <<relayVars, truncVars, chunkVars, castVars>>

\* 'response'
Response(c) ==
    /\ \E text \in {"", "it is noon"} :
          /\ event' = [Event("response", c) EXCEPT !.text = text]
          /\ starts' = IF text # "" /\ ~convs[c].broadcastAudioResponse
                       THEN ConvSendTextInput(starts, "broadcast " \o text,
                                              convs[c].user, FALSE)
                       ELSE starts
    /\ Len(starts') <= MaxStarts
    /\ UNCHANGED <<conversationCounter, audioBuffers, convs, audioFiles, config>>
    /\ UNCHANGED <<relayVars, truncVars, chunkVars, castVars>>

\* the registry after the 'audio-data' handler of conversation cc
AccumulateLast(bufs, cc, audioData) == Put(bufs, cc, audioData)
Accumulate(bufs, cc, audioData) ==
    IF cc \notin DOMAIN bufs THEN Put(bufs, cc, audioData)
    ELSE Put(bufs, cc, bufs[cc] \o audioData)

\* 'audio-data'
AudioData(c) ==
    /\ convs[c].frames < Len(ReplyFrames)
    /\ audioBuffers' = Accumulate(audioBuffers, convs[c].cc,
                                  ReplyFrames[convs[c].frames + 1])
    /\ convs' = [convs EXCEPT ![c].frames = @ + 1]
    /\ event' = Event("audio-data", c)
    /\ UNCHANGED <<conversationCounter, starts, audioFiles, config>>
    /\ UNCHANGED <<relayVars, truncVars, chunkVars, castVars>>

\* 'ended' with an error: a log line; the conversation is over
EndedError(c) ==
    /\ convs' = Delete(convs, c)
    /\ event' = [Event("ended", c) EXCEPT !.error = TRUE]
    /\ UNCHANGED <<conversationCounter, audioBuffers, starts, audioFiles, config>>
    /\ UNCHANGED <<relayVars, truncVars, chunkVars, castVars>>

\* 'ended' without error; written tells whether fs.writeFileSync succeeded
Ended(c) ==
    /\ \E continueConversation \in BOOLEAN, written \in BOOLEAN :
        LET cv == convs[c]
            has == cv.cc \in DOMAIN audioBuffers
            audioBuffer == TruncateSilences(audioBuffers[cv.cc],
                                            Scaled(MAX_SILENCE_LENGTH), SILENCE_THRESHOLD)
            threw == has /\ cv.broadcastAudioResponse /\ audioBuffer.threw # ""
            sent == IF has /\ cv.broadcastAudioResponse
                    THEN ConvSendBroadcastAudioBuffer(starts, audioBuffer.buf, cv.user,
                                                      AUDIO_OUT_LINEAR16)
                    ELSE starts
            ev == [Event("ended", c) EXCEPT
                      !.continueConversation = continueConversation,
                      !.handed = IF has /\ cv.broadcastAudioResponse /\ ~threw
                                 THEN <<[buf |-> audioBuffer.buf, user |-> cv.user,
                                         format |-> AUDIO_OUT_LINEAR16]>>
                                 ELSE <<>>]
        IN  /\ audioFiles' = IF has /\ config.saveAudioFiles /\ written
                             THEN Put(audioFiles, AudioPath(cv.cc), audioBuffers[cv.cc])
                             ELSE audioFiles
            /\ ~(has /\ config.saveAudioFiles) => written
            /\ IF threw
               THEN /\ event' = [ev EXCEPT !.text = audioBuffer.threw]
                    /\ UNCHANGED <<audioBuffers, starts>>
               ELSE /\ audioBuffers' = IF has THEN Delete(audioBuffers, cv.cc)
                                       ELSE audioBuffers
                    /\ starts' = IF continueConversation /\ cv.buf # Absent
                                 THEN Append(sent, StartCall(cv.user, Null, cv.buf,
                                                 cv.format, TRUE, FALSE, <<cv.cc>>))
                                 ELSE sent
                    /\ event' = [ev EXCEPT !.ends = IF continueConversation THEN 0 ELSE 1]
    /\ convs' = Delete(convs, c)
    /\ Len(starts') <= MaxStarts
    /\ UNCHANGED <<conversationCounter, config>>
    /\ UNCHANGED <<relayVars, truncVars, chunkVars, castVars>>

\* 'error': a log line and conversation.end()
ConversationError(c) ==
    /\ event' = [Event("error", c) EXCEPT !.ends = 1]
    /\ UNCHANGED <<conversationCounter, audioBuffers, convs, starts, audioFiles, config>>
    /\ UNCHANGED <<relayVars, truncVars, chunkVars, castVars>>

ConvNext ==
    \/ CallSendTextInput
    \/ CallSendBroadcastAudioBuffer
    \/ \E s \in 1..Len(starts) : StartConversation(s)
    \/ \E c \in DOMAIN convs : Response(c)
    \/ \E c \in DOMAIN convs : AudioData(c)
    \/ \E c \in DOMAIN convs : EndedError(c)
    \/ \E c \in DOMAIN convs : Ended(c)
    \/ \E c \in DOMAIN convs : ConversationError(c)

SpecConv == ConvInit /\ [][ConvNext]_vars

\* the step is the handler `name` of a conversation
Handles(name) == event'.name = name /\ event'.conv \in DOMAIN convs

\* C19: a non-empty text reply makes exactly one new text query, "broadcast "
\* followed by the text, for the conversation's user when the conversation's
\* broadcastAudioResponse is false or absent, and none when it is true.
C19_TextReplyBroadcast ==
    [][Handles("response") =>
          LET cv == convs[event'.conv]
              text == event'.text
          IN  IF text # "" /\ ~cv.broadcastAudioResponse
              THEN /\ Len(starts') = Len(starts) + 1
                   /\ SubSeq(starts', 1, Len(starts)) = starts
                   /\ starts'[Len(starts')].textQuery = "broadcast " \o text
                   /\ starts'[Len(starts')].user = cv.user
                   /\ starts'[Len(starts')].buf = Absent
              ELSE starts' = starts]_vars

\* a text reply has just been broadcast
C19_Witness ==
    /\ event.name = "response"
    /\ event.text = "it is noon"
    /\ ~convs[event.conv].broadcastAudioResponse
    /\ starts[Len(starts)].textQuery = "broadcast it is noon"
    /\ ~starts[Len(starts)].called

\* C20: when a conversation ends with an error its audio buffer leaves the
\* registry and nothing else happens: no file, no broadcast, no continuation.
C20_ErrorEndReleasesBuffer ==
    [][(Handles("ended") /\ event'.error) =>
          /\ convs[event'.conv].cc \notin DOMAIN audioBuffers'
          /\ starts' = starts
          /\ audioFiles' = audioFiles
          /\ event'.ends = 0]_vars

----------------------------------------------------------------------------
(* Scenario D: the truncateSilences call of the 'ended' handler on audio with
   silent runs of 12000, 5000 and 20000 samples, lengths scaled as above *)

ScenarioRuns == {Scaled(12000), Scaled(5000), Scaled(20000)}
RunSeqs == UNION {[1..n -> ScenarioRuns] : n \in 1..3}

\* silent runs of the given lengths, a loud sample after each but the last, and
\* after the last as well when closed
RECURSIVE RunSamples(_, _)
RunSamples(runs, closed) ==
    IF runs = <<>> THEN <<>>
    ELSE Quiet(Head(runs))
         \o (IF Len(runs) > 1 \/ closed THEN <<300>> ELSE <<>>)
         \o RunSamples(Tail(runs), closed)

ScenarioInit ==
    /\ \E runs \in RunSeqs, closed \in BOOLEAN :
          tsIn = [runs |-> runs, closed |-> closed,
                  samples |-> RunSamples(runs, closed),
                  buf |-> Encode(RunSamples(runs, closed)),
                  maxSamples |-> Scaled(MAX_SILENCE_LENGTH),
                  threshold |-> SILENCE_THRESHOLD]
    /\ tsOut = <<>>
    /\ RelayInit
    /\ ChunkIdle
    /\ ConvIdle
    /\ CastIdle

SpecScenarioD == ScenarioInit /\ [][TruncNext]_vars

\* C11: scenario D.  Audio with silent runs of 12000, 5000 and 20000 samples,
\* truncated with MAX_SILENCE_LENGTH = 8000, comes out with the first and the
\* third run exactly 8000 samples long and the second run as it was.
C11_ScenarioDTruncated ==
    (/\ tsOut # <<>>
     /\ tsIn.runs = <<Scaled(12000), Scaled(5000), Scaled(20000)>>
     /\ tsIn.closed)
        => /\ tsOut[1].threw = ""
           /\ tsOut[1].buf =
                 Encode(RunSamples(<<Scaled(MAX_SILENCE_LENGTH), Scaled(5000),
                                     Scaled(MAX_SILENCE_LENGTH)>>, TRUE))

\* C21: when a conversation that accumulated audio ends without error, its
\* silence-truncated buffer is handed to sendBroadcastAudioBuffer for the same
\* user exactly when broadcastAudioResponse was asked for, and in both cases
\* the conversation's entry has left audioBuffers when the handler returns.
C21_EndedBroadcastsAndReleases ==
    [][(/\ Handles("ended")
        /\ ~event'.error
        /\ convs[event'.conv].cc \in DOMAIN audioBuffers) =>
          LET cv == convs[event'.conv]
              truncated == TruncateSilences(audioBuffers[cv.cc],
                               Scaled(MAX_SILENCE_LENGTH), SILENCE_THRESHOLD).buf
          IN  /\ cv.broadcastAudioResponse
                    => /\ Len(event'.handed) = 1
                       /\ event'.handed[1].buf = truncated
                       /\ event'.handed[1].user = cv.user
                       /\ starts' = ConvSendBroadcastAudioBuffer(starts, truncated,
                                        cv.user, AUDIO_OUT_LINEAR16)
              /\ ~cv.broadcastAudioResponse
                    => /\ event'.handed = <<>>
                       /\ \A s \in (Len(starts) + 1)..Len(starts') :
                             starts'[s].textQuery # "broadcast"
              /\ cv.cc \notin DOMAIN audioBuffers']_vars

\* a conversation with broadcastAudioResponse has just ended: its audio, the
\* long silent run shortened, was handed on and its registry entry is gone
C21_Witness ==
    /\ event.name = "ended"
    /\ ~event.error
    /\ Len(event.handed) = 1
    /\ Len(event.handed[1].buf) < Len(ReplyFrames[1]) + Len(ReplyFrames[2])
    /\ Len(event.handed[1].buf) > 0
    /\ audioBuffers = [cc \in {} |-> <<>>]
    /\ starts[Len(starts)].textQuery = "broadcast"

\* the sound file of request i was read and its length is n
ReadLength(i, n) == rs[i].read = <<<<n>>>>

\* C22: sendBroadcastAudioBuffer never starts a turn with a buffer longer than
\* MAX_BUFFER_LENGTH: a longer buffer is dropped whole, with no "broadcast"
\* turn and nothing scheduled again, and a buffer of exactly MAX_BUFFER_LENGTH
\* bytes is sent.
C22_LongBufferDropped ==
    \A i \in 1..Len(rs) :
        /\ \A k \in 1..Len(rs[i].turns) :
              rs[i].turns[k].audio # Absent
                  => rs[i].turns[k].audio[1] <= MAX_BUFFER_LENGTH
        /\ \A n \in {b[1] : b \in SoundFileReads \ {Absent}} :
              /\ (ReadLength(i, n) /\ n > MAX_BUFFER_LENGTH)
                    => /\ rs[i].turns = <<>>
                       /\ rs[i].timer = "fired"
                       /\ rs[i].threw = <<>>
              /\ (ReadLength(i, n) /\ n = MAX_BUFFER_LENGTH /\ rs[i].threw = <<>>)
                    => rs[i].turns = <<Turn(rs[i].thunk.user, "broadcast", <<n>>)>>

\* a sound longer than MAX_BUFFER_LENGTH was read and nothing was started
C22_Witness ==
    \E i \in 1..Len(rs) :
        /\ ReadLength(i, MAX_BUFFER_LENGTH + 2)
        /\ rs[i].turns = <<>>

\* the step is the start callback of a continuation
StartsContinued ==
    /\ event'.name = "startConversation"
    /\ starts[event'.conv].continued

\* C23: when a turn ends without error and invites continuation, a follow-up
\* turn is started exactly when the conversation has an outbound audio buffer;
\* the follow-up keeps the conversation's number, has continued set, streams
\* the outbound buffer and carries no "broadcast" text query.
C23_ContinuationWithAudio ==
    [][/\ (Handles("ended") /\ ~event'.error /\ event'.continueConversation) =>
             LET cv == convs[event'.conv]
                 new == SubSeq(starts', Len(starts) + 1, Len(starts'))
                 followUps == {k \in 1..Len(new) : new[k].continued}
             IN  IF cv.buf # Absent
                 THEN /\ followUps = {Len(new)}
                      /\ new[Len(new)].cc = <<cv.cc>>
                      /\ new[Len(new)].user = cv.user
                      /\ new[Len(new)].buf = cv.buf
                      /\ new[Len(new)].textQuery = Null
                 ELSE followUps = {}
       /\ StartsContinued =>
             LET st == starts[event'.conv]
                 cv == convs'[event'.conv]
             IN  /\ cv.cc = st.cc[1]
                 /\ cv.continued
                 /\ conversationCounter' = conversationCounter
                 /\ st.textQuery # "broadcast"
                 /\ Len(event'.writes) >= 1
                 /\ Concat(SubSeq(event'.writes, 1, Len(event'.writes) - 1)) = st.buf[1]
      ]_vars

\* the follow-up turn of a conversation with outbound audio has just started
C23_Witness ==
    /\ event.name = "startConversation"
    /\ event.conv \in DOMAIN convs
    /\ convs[event.conv].continued
    /\ convs[event.conv].cc < conversationCounter
    /\ convs[event.conv].buf = <<SoundBuf>>
    /\ Len(event.writes) = 2

\* the users whose assistant configureNextUser has created
Created == {ConfigUsers[k] : k \in 1..(Len(ConfigUsers) - Len(userKeys))}

\* C24: the assistants of the configured users are created one after the
\* other: at most one assistant is created and not yet ready, and the
\* assistant of a user is created only when those of all earlier users are
\* ready.
C24_SequentialStartup ==
    /\ Cardinality(Created \ assistants) <= 1
    /\ \A k \in 1..Len(ConfigUsers) :
          ConfigUsers[k] \in Created
              => \A j \in 1..(k - 1) : ConfigUsers[j] \in assistants

\* the assistant of the second user is created, the first one being ready
C24_Witness ==
    /\ pendingUser = ConfigUsers[2]
    /\ assistants = {ConfigUsers[1]}
    /\ userKeys = <<>>

\* keys a client may put in the place of its relayKey
OtherKeys == {ValidKey, "bad", "worse"}

\* C25: the relayKey of a request is in no log line of the handler: a request
\* that differs from a posted one only in its non-empty relayKey, and gets the
\* same answer, makes the handler write the same log lines.
C25_KeyNotLogged ==
    [][Len(reqs') = Len(reqs) + 1 =>
          LET req == reqs'[Len(reqs')]
              r == rs'[Len(rs')]
          IN  TruthyStr(req.relayKey) =>
                  \A k \in OtherKeys :
                      LET other == [req EXCEPT !.relayKey = k]
                      IN  Handler(other, files).sent = r.sent
                              => HandlerLog(other, files) = r.log]_vars

\* a malformed request with a relayKey was logged, the key redacted
C25_Witness ==
    \E i \in 1..Len(reqs) :
        /\ reqs[i].relayKey = "bad"
        /\ reqs[i].command = Null
        /\ reqs[i].user = "global"
        /\ rs[i].sent = <<400>>
        /\ rs[i].log = <<"Malformed request, returning 400: command: \"" \o Null
                        \o "\", user: global, relayKey: [Redacted].">>

\* C26: audioBuffers holds an entry for a conversation exactly when an
\* audio-data frame has arrived for it since its buffer was last released, and
\* the entry is those frames concatenated in the order they arrived.
C26_RegistryAccumulates ==
    /\ \A c \in DOMAIN convs :
          /\ convs[c].cc \in DOMAIN audioBuffers <=> convs[c].frames > 0
          /\ convs[c].frames > 0 =>
                audioBuffers[convs[c].cc]
                    = Concat(SubSeq(ReplyFrames, 1, convs[c].frames))
    /\ \A cc \in DOMAIN audioBuffers : cc < conversationCounter

\* a conversation has received two frames
C26_Witness ==
    \E c \in DOMAIN convs :
        /\ convs[c].frames = 2
        /\ audioBuffers[convs[c].cc] = ReplyFrames[1] \o ReplyFrames[2]

----------------------------------------------------------------------------
(* The writes of startConversation, for outbound buffers of every length up to
   a few frames *)

MaxStreamBytes == 40

\* outbound buffers: every length, two byte patterns
StreamBufs ==
    {[k \in 1..n |-> (k * m) % 256] : n \in 0..MaxStreamBytes, m \in {1, 3}}

\* the start calls whose callback is awaited: a text query, the "broadcast"
\* preface of a sound, or the continuation of a conversation with a sound
StreamStarts ==
    {StartCall("public", "hello", Absent, Null, FALSE, FALSE, Absent)}
    \cup {StartCall("global", "broadcast", <<buf>>, AUDIO_OUT_LINEAR16, FALSE, FALSE,
                    Absent) : buf \in StreamBufs}
    \cup {StartCall("global", Null, <<buf>>, AUDIO_OUT_LINEAR16, TRUE, FALSE, <<0>>) :
             buf \in StreamBufs}

StreamInit ==
    /\ \E st \in StreamStarts :
          /\ starts = <<st>>
          /\ conversationCounter = IF st.cc = Absent THEN 0 ELSE 1
    /\ audioBuffers = [cc \in {} |-> <<>>]
    /\ convs = [s \in {} |-> <<>>]
    /\ audioFiles = [path \in {} |-> <<>>]
    /\ config = [saveAudioFiles |-> FALSE]
    /\ event = Event("", 0)
    /\ RelayUpInit
    /\ TruncIdle
    /\ ChunkIdle
    /\ CastIdle

StreamNext == \E s \in 1..Len(starts) : StartConversation(s)
SpecStream == StreamInit /\ [][StreamNext]_vars

\* C27: a continued turn with an outbound buffer writes the frames of the
\* buffer in order, which concatenate to the buffer, each at most 16000 bytes
\* and all but the last exactly 16000 bytes, and then the silence block once;
\* a turn that is not continued writes nothing.
C27_FramesThenSilence ==
    event.name = "startConversation" =>
        LET st == starts[event.conv]
            w == event.writes
            n == Len(w) - 1
        IN  IF st.continued /\ st.buf # Absent
            THEN /\ Len(w) >= 1
                 /\ Concat(SubSeq(w, 1, n)) = st.buf[1]
                 /\ \A k \in 1..n : Len(w[k]) > 0 /\ Len(w[k]) <= Scaled(16000)
                 /\ \A k \in 1..(n - 1) : Len(w[k]) = Scaled(16000)
                 /\ w[Len(w)] = Silence
                 /\ Len(Silence) = Scaled(2 * 32000)
            ELSE w = <<>>

\* a buffer of two whole frames and a shorter one was streamed
C27_Witness ==
    /\ event.name = "startConversation"
    /\ Len(event.writes) = 4
    /\ Len(event.writes[3]) < Scaled(16000)
    /\ Len(starts[event.conv].buf[1]) = MaxStreamBytes

----------------------------------------------------------------------------
\* C28: the counter never decreases; a conversation created by a sendTextInput
\* or sendBroadcastAudioBuffer call gets the counter's value, which no earlier
\* conversation has; two conversations in progress never share an identifier;
\* and an event changes the audio buffer registry at most under the identifier
\* of the conversation it belongs to.
C28_IdentifiersUnique ==
    [][/\ conversationCounter' >= conversationCounter
       /\ \A c1, c2 \in DOMAIN convs' :
             c1 # c2 => convs'[c1].cc # convs'[c2].cc
       /\ \A c \in DOMAIN convs' : convs'[c].cc < conversationCounter'
       /\ \A s \in 1..Len(starts) :
             ~starts[s].called /\ starts'[s].called /\ starts[s].cc = Absent =>
                /\ convs'[s].cc = conversationCounter
                /\ conversationCounter' = conversationCounter + 1
                /\ \A c \in DOMAIN convs : convs[c].cc < convs'[s].cc
                /\ \A cc \in DOMAIN audioBuffers : cc < convs'[s].cc
       /\ \A cc \in (DOMAIN audioBuffers) \cup (DOMAIN audioBuffers') :
             \/ /\ cc \in DOMAIN audioBuffers
                /\ cc \in DOMAIN audioBuffers'
                /\ audioBuffers'[cc] = audioBuffers[cc]
             \/ /\ event'.name \in {"audio-data", "ended"}
                /\ event'.conv \in DOMAIN convs
                /\ convs[event'.conv].cc = cc]_vars

\* two conversations in progress whose start callbacks ran in the opposite
\* order of their calls, one of them holding audio
C28_Witness ==
    \E c1, c2 \in DOMAIN convs :
       /\ c1 < c2
       /\ convs[c1].cc > convs[c2].cc
       /\ convs[c1].cc \in DOMAIN audioBuffers \/ convs[c2].cc \in DOMAIN audioBuffers

----------------------------------------------------------------------------
\* a request on one of the two text routes that the handler accepted
AcceptedText(i) ==
    /\ reqs[i].route \in {"broadcast", "custom"}
    /\ rs[i].sent = <<200>>

\* C29: for an accepted text request the text query sent to the assistant is
\* "broadcast " followed by the command on the broadcast route and the command
\* itself on the custom route, and the conversation is started with the
\* request's broadcastAudioResponse flag.
C29_TextQueryAndFlag ==
    \A i \in 1..Len(reqs) :
        AcceptedText(i) =>
            LET query == IF reqs[i].route = "broadcast"
                         THEN "broadcast " \o reqs[i].command
                         ELSE reqs[i].command
            IN  /\ rs[i].timer # "none"
                /\ rs[i].thunk.arg = query
                /\ rs[i].thunk.bar = reqs[i].broadcastAudioResponse
                /\ Len(rs[i].turns) <= 1
                /\ Len(rs[i].callbacks) = Len(rs[i].turns)
                /\ rs[i].timer = "fired" /\ rs[i].threw = <<>> =>
                      Len(rs[i].turns) = 1
                /\ \A t \in 1..Len(rs[i].turns) :
                      /\ rs[i].turns[t] = Turn(reqs[i].user, query, Absent)
                      /\ rs[i].callbacks[t].user = reqs[i].user
                      /\ rs[i].callbacks[t].buf = Absent
                      /\ ~rs[i].callbacks[t].continued
                      /\ rs[i].callbacks[t].broadcastAudioResponse
                             = reqs[i].broadcastAudioResponse

\* a custom request with the flag set has opened its turn
C29_Witness ==
    \E i \in 1..Len(reqs) :
        /\ AcceptedText(i)
        /\ reqs[i].route = "custom"
        /\ reqs[i].broadcastAudioResponse
        /\ Len(rs[i].turns) = 1
        /\ rs[i].turns[1].textQuery = reqs[i].command

----------------------------------------------------------------------------
(* The artifact path of TTS requests over texts and voices whose
   concatenations overlap *)

MaxKeyRequests == 2

KeyTexts == {"hi", "hie"}
KeyVoices ==
    {<<[languageCode |-> l, ssmlGender |-> g, name |-> n]>> :
        l \in {"en-GB", "n-GB"}, g \in {"FEMALE", "MALE"},
        n \in {Undefined, "en-GB-Wavenet-A"}}

KeyRequests ==
    {Req("chromecastTTS", c, "global", ConfigRelayKey("global"), Absent, v, Null,
         NumAbsent, FALSE) : c \in KeyTexts, v \in KeyVoices}

KeyPost ==
    /\ Len(reqs) < MaxKeyRequests
    /\ \E req \in KeyRequests : PostRequest(req)

KeyNext ==
    \/ KeyPost
    \/ \E i \in 1..Len(rs) : SynthesizeWritten(i)

KeyInit == RelayUpInit /\ TruncIdle /\ ChunkIdle /\ ConvIdle /\ CastIdle
SpecKey == KeyInit /\ [][KeyNext]_vars

\* C30: with the digest injective on its input, two TTS requests that resolve
\* to the same artifact path have the same text and the same voice
\* (languageCode, gender, name).
C30_SamePathSameTextAndVoice ==
    \A i, j \in 1..Len(reqs) :
        (/\ reqs[i].route = "chromecastTTS"
         /\ reqs[j].route = "chromecastTTS"
         /\ rs[i].sent = <<200>>
         /\ rs[j].sent = <<200>>
         /\ ArtifactPath(rs[i].key) = ArtifactPath(rs[j].key))
            => /\ reqs[i].command = reqs[j].command
               /\ VoiceOf(reqs[i]) = VoiceOf(reqs[j])

\* the later of two requests with different texts is a cache hit on the
\* artifact synthesized for the earlier one
C30_HitOnOtherText ==
    \E i, j \in 1..Len(reqs) :
        /\ i < j
        /\ reqs[i].command # reqs[j].command
        /\ rs[i].synth = "written"
        /\ rs[j].hit
        /\ rs[j].key = rs[i].key

----------------------------------------------------------------------------
\* the byte offset in the original buffer at which chunk k ends
BoundaryAfter(bufs, k) == Len(Concat(SubSeq(bufs, 1, k)))

\* a silent run of at least minSamples samples ends exactly at byte offset b,
\* where the first sample that is not silent follows
SilentRunEndsAt(samples, b, minSamples, threshold) ==
    /\ b % 2 = 0
    /\ b \div 2 >= minSamples
    /\ b \div 2 < Len(samples)
    /\ \A k \in ((b \div 2) - minSamples + 1)..(b \div 2) : samples[k] < threshold
    /\ ~(samples[(b \div 2) + 1] < threshold)

\* C31: every boundary between two consecutive chunks of chunkBuffer lies at
\* the end of a silent run of at least minSilenceSamples samples of the
\* original buffer: the chunk ends with the run and the next chunk starts with
\* the first sample after it that is not silent.
C31_BoundariesAfterSilence ==
    (cbOut # <<>> /\ cbOut[1].threw = "")
        => \A k \in 1..(Len(cbOut[1].bufs) - 1) :
              SilentRunEndsAt(cbIn.samples, BoundaryAfter(cbOut[1].bufs, k),
                              cbIn.minSamples, cbIn.threshold)

----------------------------------------------------------------------------
\* an authenticated request that names a sound the route cannot play, or a URL
\* without contentType
Unplayable(req) ==
    \/ /\ req.route = "broadcastAudio"
       /\ \/ req.command \notin DOMAIN BroadcastAudioSounds
          \/ BroadcastAudioSounds[req.command].format # AUDIO_OUT_LINEAR16
    \/ /\ req.route = "chromecastAudio"
       /\ req.command \notin DOMAIN ChromecastAudioSounds
    \/ /\ req.route = "chromecastURL"
       /\ req.contentType \in {Null, ""}

\* C32: an authenticated request for a sound that is not configured on the
\* broadcastAudio or chromecastAudio route, for a broadcastAudio sound whose
\* format is not LINEAR16, or for a URL without contentType, is answered with
\* 500 and starts no broadcast and no cast.
C32_UnplayableAnswered500 ==
    \A i \in 1..Len(reqs) :
        (~MissingFields(reqs[i]) /\ Authorized(reqs[i]) /\ Unplayable(reqs[i]))
            => /\ rs[i].sent = <<500>>
               /\ rs[i].timer = "none"
               /\ rs[i].thunk = NoThunk
               /\ rs[i].turns = <<>>
               /\ rs[i].read = <<>>
               /\ \A e \in 1..Len(rs[i].events) :
                     rs[i].events[e] \notin {"setTimeout", "cast.cast", "assistant.start"}

\* the sound configured as FLAC was asked for on the broadcastAudio route
C32_Witness ==
    \E i \in 1..Len(reqs) :
        /\ reqs[i].route = "broadcastAudio"
        /\ reqs[i].command = "flacky"
        /\ Authorized(reqs[i])
        /\ rs[i].sent = <<500>>

----------------------------------------------------------------------------
(* The cast module: the mDNS browser, cast and control.  A servicedown
   advertisement only writes a log line and is left out. *)

MaxCasts == 3

ServiceNames == {"public", "bedrooms"}

\* the values of players[serviceName]
PlayerNull == [kind |-> "null", id |-> 0]
Player(k) == [kind |-> "player", id |-> k]

\* the command objects control is called with
CommandObjs ==
    {[type |-> PLAY, currentTime |-> NumAbsent],
     [type |-> STOP, currentTime |-> NumAbsent],
     [type |-> SEEK, currentTime |-> NumInt(3)],
     [type |-> SEEK, currentTime |-> NumInt(0)]}

CastEvent(name, serviceName, issued) ==
    [name |-> name, serviceName |-> serviceName, issued |-> issued]

\* browser.on('serviceUp')
ServiceUp(serviceName) ==
    /\ serviceName \notin chromecasts
    /\ chromecasts' = chromecasts \cup {serviceName}
    /\ castEvent' = CastEvent("serviceUp", serviceName, <<>>)
    /\ UNCHANGED <<players, casts>>
    /\ UNCHANGED <<relayVars, truncVars, chunkVars, convVars>>

\* the call control makes on the player, if any
PlayerCommandUnregistered(known, player, commandObj) ==
    IF commandObj.type = SEEK
    THEN <<[player |-> player.id, method |-> "seek",
            currentTime |-> commandObj.currentTime]>>
    ELSE <<[player |-> player.id, method |-> commandObj.type,
            currentTime |-> NumAbsent]>>
PlayerCommand(known, player, commandObj) ==
    IF ~known THEN <<>>
    ELSE IF player.kind # "player" THEN <<>>
    ELSE IF commandObj.type \in {PLAY, PAUSE, STOP}
    THEN <<[player |-> player.id, method |-> commandObj.type,
            currentTime |-> NumAbsent]>>
    ELSE IF commandObj.type = SEEK
    THEN IF \/ ~TruthyNum(commandObj.currentTime)
            \/ ~NumberIsInteger(commandObj.currentTime)
            \/ commandObj.currentTime.val < 0
         THEN <<>>
         ELSE <<[player |-> player.id, method |-> "seek",
                 currentTime |-> commandObj.currentTime]>>
    ELSE <<>>

\* control(serviceName, commandObj)
Control(serviceName, commandObj) ==
    /\ castEvent' = CastEvent("control", serviceName,
                              PlayerCommand(serviceName \in chromecasts,
                                            players[serviceName], commandObj))
    /\ UNCHANGED <<chromecasts, players, casts>>
    /\ UNCHANGED <<relayVars, truncVars, chunkVars, convVars>>

\* cast(serviceName, mediaUrl, mediaType): returns at once for an unknown
\* name, else creates a client and connects it
Cast(serviceName) ==
    /\ Len(casts) < MaxCasts
    /\ casts' = IF serviceName \in chromecasts
                THEN Append(casts, [serviceName |-> serviceName, state |-> "connecting",
                                    failed |-> FALSE])
                ELSE casts
    /\ castEvent' = CastEvent("cast", serviceName, <<>>)
    /\ UNCHANGED <<chromecasts, players>>
    /\ UNCHANGED <<relayVars, truncVars, chunkVars, convVars>>

\* the callbacks of client.connect and client.launch with a player: the
\* player is registered and asked to load the media.  A closed client calls
\* nothing back.
Launched(k) ==
    /\ casts[k].state = "connecting"
    /\ ~casts[k].failed
    /\ casts' = [casts EXCEPT ![k].state = "launched"]
    /\ players' = [players EXCEPT ![casts[k].serviceName] = Player(k)]
    /\ castEvent' = CastEvent("launch", casts[k].serviceName,
                              <<[player |-> k, method |-> "load",
                                 currentTime |-> NumAbsent]>>)
    /\ UNCHANGED chromecasts
    /\ UNCHANGED <<relayVars, truncVars, chunkVars, convVars>>

\* the callback of client.launch with an error: player is undefined, it is
\* registered as it is and player.on throws
LaunchFailed(k) ==
    /\ casts[k].state = "connecting"
    /\ ~casts[k].failed
    /\ casts' = [casts EXCEPT ![k].state = "launchFailed"]
    /\ players' = [players EXCEPT ![casts[k].serviceName] = PlayerUndefined]
    /\ castEvent' = CastEvent("launch", casts[k].serviceName, <<>>)
    /\ UNCHANGED chromecasts
    /\ UNCHANGED <<relayVars, truncVars, chunkVars, convVars>>

\* the registry after client.on('error') of a cast to serviceName
Cleared(registry, serviceName) == [registry EXCEPT ![serviceName] = PlayerNull]

\* client.on('error'): client.close(); players[serviceName] = null
ClientError(k) ==
    /\ ~casts[k].failed
    /\ casts' = [casts EXCEPT ![k].failed = TRUE]
    /\ players' = Cleared(players, casts[k].serviceName)
    /\ castEvent' = CastEvent("clientError", casts[k].serviceName, <<>>)
    /\ UNCHANGED chromecasts
    /\ UNCHANGED <<relayVars, truncVars, chunkVars, convVars>>

CastInit == CastIdle /\ RelayUpInit /\ TruncIdle /\ ChunkIdle /\ ConvIdle

CastNext ==
    \/ \E serviceName \in ServiceNames : ServiceUp(serviceName)
    \/ \E serviceName \in ServiceNames : Cast(serviceName)
    \/ \E k \in 1..Len(casts) : Launched(k)
    \/ \E k \in 1..Len(casts) : LaunchFailed(k)
    \/ \E k \in 1..Len(casts) : ClientError(k)
    \/ \E serviceName \in ServiceNames, commandObj \in CommandObjs :
          Control(serviceName, commandObj)

SpecCast == CastInit /\ [][CastNext]_vars

\* C33: control issues a command only to the player registered for a
\* discovered target, which a cast to that target launched and which no client
\* error has cleared since; a client error clears the registered player; for an
\* unknown target or a target without such a player control issues nothing.
C33_ControlOnlyLaunchedPlayer ==
    [][/\ (castEvent'.name = "control" /\ castEvent'.issued # <<>>) =>
             LET serviceName == castEvent'.serviceName
                 k == castEvent'.issued[1].player
             IN  /\ serviceName \in chromecasts
                 /\ players[serviceName] = Player(k)
                 /\ k \in 1..Len(casts)
                 /\ casts[k].serviceName = serviceName
                 /\ casts[k].state = "launched"
       /\ (/\ castEvent'.name = "control"
           /\ \/ castEvent'.serviceName \notin chromecasts
              \/ players[castEvent'.serviceName].kind # "player") =>
             castEvent'.issued = <<>>
       /\ \A k \in 1..Len(casts) :
             (~casts[k].failed /\ casts'[k].failed) =>
                players'[casts[k].serviceName].kind # "player"
       /\ \A n \in ServiceNames :
             (players'[n].kind = "player" /\ players'[n] # players[n]) =>
                /\ players'[n].id \in 1..Len(casts)
                /\ casts[players'[n].id].state = "connecting"
                /\ casts'[players'[n].id].state = "launched"
                /\ casts[players'[n].id].serviceName = n]_vars

\* a seek was issued to the player of a launched cast
C33_Witness ==
    /\ castEvent.name = "control"
    /\ castEvent.issued # <<>>
    /\ castEvent.issued[1].method = "seek"
    /\ \E k \in 1..Len(casts) : casts[k].failed

----------------------------------------------------------------------------
\* C34: for a TTS request the cast is invoked only when the artifact of the
\* request's key is in the cache: on a miss not before the synthesized bytes
\* are written, and never when the synthesis failed.
C34_CastOnlyWithArtifact ==
    [][\A i \in 1..Len(rs) :
          (/\ reqs[i].route = "chromecastTTS"
           /\ rs[i].timer = "pending"
           /\ rs'[i].timer = "fired")
              => /\ ArtifactPath(rs[i].key) \in DOMAIN files
                 /\ rs[i].synth \in {"none", "written"}]_vars

----------------------------------------------------------------------------
\* the timer of request i fires and its thunk calls assistants[user].start
StartsTurn(i) ==
    /\ rs[i].timer = "pending"
    /\ rs'[i].timer = "fired"
    /\ UserConfigured(rs[i].thunk.user)
    /\ \/ rs[i].thunk.fn = "sendTextInput"
       \/ /\ rs[i].thunk.fn = "sendBroadcastAudio"
          /\ rs'[i].read # <<Absent>>
          /\ rs'[i].read[1][1] <= MAX_BUFFER_LENGTH

\* C35: when sendTextInput or sendBroadcastAudioBuffer opens a turn for a
\* user, the assistant of that user is registered; and a request accepted
\* while the start-up of that user is pending never dereferences a missing
\* session: its call does not throw.
C35_TurnOnlyOnReadySession ==
    [][\A i \in 1..Len(rs) :
          StartsTurn(i) =>
             /\ Len(rs'[i].turns) > Len(rs[i].turns) => rs[i].thunk.user \in assistants
             /\ rs'[i].threw = rs[i].threw]_vars

----------------------------------------------------------------------------
\* C36: every POST the handler handles gets exactly one response from it: the
\* handler, its callbacks included, neither ends without sending one (by
\* throwing before its send) nor attempts a second send.
C36_ExactlyOneResponse ==
    \A i \in 1..Len(reqs) :
        /\ Len(rs[i].sent) = 1
        /\ \A t \in 1..Len(rs[i].threw) : rs[i].threw[t] # "ERR_HTTP_HEADERS_SENT"
        /\ rs[i].timer = "none" => rs[i].threw = <<>>

----------------------------------------------------------------------------
\* the continued turns of conversation cc whose start callback streamed the
\* outbound buffer
Streamings(cc) ==
    {s \in 1..Len(starts) :
        /\ starts[s].continued
        /\ starts[s].called
        /\ starts[s].buf # Absent
        /\ starts[s].cc = <<cc>>}

\* C37: an audio-broadcast conversation streams its outbound buffer at most
\* once, whatever invitations to continue the assistant sends, and a turn of
\* it that the assistant ends without a continuation following ends in a call
\* of conversation.end().
C37_StreamedAtMostOnce ==
    /\ \A cc \in 0..conversationCounter : Cardinality(Streamings(cc)) <= 1
    /\ (/\ event.name = "ended"
        /\ starts[event.conv].buf # Absent
        /\ event.error \/ ~event.continueConversation)
          => event.ends = 1

----------------------------------------------------------------------------
\* C38: when two casts to the same target overlap, an error on the client of
\* the older cast leaves the player that the newer cast registered in place,
\* as long as the newer cast's own client has not failed.
C38_OlderErrorKeepsNewerPlayer ==
    [][\A k \in 1..Len(casts) :
          (~casts[k].failed /\ casts'[k].failed) =>
             \A j \in 1..Len(casts) :
                (/\ j > k
                 /\ casts[j].serviceName = casts[k].serviceName
                 /\ ~casts[j].failed
                 /\ players[casts[k].serviceName] = Player(j))
                    => players'[casts[k].serviceName] = Player(j)]_vars

----------------------------------------------------------------------------
\* the step starts a continued turn
ContinuationStarted ==
    /\ Len(starts') > Len(starts)
    /\ starts'[Len(starts')].continued

\* C39: after a terminal event of a conversation, 'error' or 'ended' with or
\* without an error, that starts no continued turn, the registry holds no
\* audio buffer of that conversation.
C39_TerminalEventReleasesBuffer ==
    [][((Handles("error") \/ Handles("ended")) /\ ~ContinuationStarted) =>
          convs[event'.conv].cc \notin DOMAIN audioBuffers']_vars

----------------------------------------------------------------------------
\* start-up has begun and no assistant is being created: every creation made
\* so far has emitted 'ready' or 'error'
StartupQuiet == pendingUser = Null /\ userKeys # ConfigUsers

\* C40: start-up makes progress for every user: once every assistant created
\* has emitted 'ready' or 'error', no configured user is left in the list
\* without its assistant having been created, even when the assistant of an
\* earlier user failed with an error.
C40_StartupReachesEveryUser ==
    StartupQuiet => userKeys = <<>>

====
